---------------------------- MODULE Spec2Model ----------------------------
(***************************************************************************)
(* pi-pr-status: the status-computation core of the PR status extension.   *)
(*                                                                         *)
(* Strings are sequences of code points (one-character strings; a code     *)
(* point outside ASCII is written "U+XXXX").  JavaScript values that may   *)
(* be undefined, null or of several types are records tagged by t.         *)
(***************************************************************************)
EXTENDS Integers, Sequences, FiniteSets, TLC

VARIABLES
    statusCheckRollup,  \* parseChecks: its argument
    checks,             \* parseChecks: its return value (Undefined before the call)
    prValue,            \* formatStatus: its argument
    statusText,         \* formatStatus: its return value (Undefined before the call)
    text,               \* parsePrUrl: its argument
    parsed,             \* parsePrUrl: its return value (Undefined before the call)
    threadRecords,      \* countUnresolvedThreads: its argument
    unresolvedCount,    \* countUnresolvedThreads: its return value (Undefined before the call)
    timer,              \* the extension: the interval the last session_start set
    lastBranch,         \* the extension: the branch of the last unpinned poll
    lastPr,             \* the extension: the pull request last shown
    cachedRepo,         \* the extension: the repository of the working directory
    pinnedPr,           \* the extension: the pull request pinned by a URL
    latestCtx,          \* the extension: the context the timer polls with
    statusBar,          \* the host: the value last passed to ui.setStatus
    intervals,          \* the host: the number of intervals that are running
    hostCtx,            \* the host: the context of its current session
    op,                 \* the last event handled, with the backend it met
    pre,                \* the extension's variables when that handler began
    calls,              \* the commands that handler ran, in order
    returned            \* what its pull-request queries returned, in order

checksVars == <<statusCheckRollup, checks>>
formatVars == <<prValue, statusText>>
urlVars == <<text, parsed>>
threadsVars == <<threadRecords, unresolvedCount>>
extVars == <<timer, lastBranch, lastPr, cachedRepo, pinnedPr, latestCtx>>
hostVars == <<statusBar, intervals, hostCtx>>
logVars == <<op, pre, calls, returned>>
selVars == <<extVars, hostVars, logVars>>
vars == <<checksVars, formatVars, urlVars, threadsVars, selVars>>

-----------------------------------------------------------------------------
(* JavaScript values *)

Undefined == [t |-> "undefined"]
Null == [t |-> "null"]
Str(s) == [t |-> "string", v |-> s]

\* (x || ""): the string itself, "" for undefined, null and "".
OrEmpty(x) == IF x.t = "string" THEN x.v ELSE <<>>

LowerLetters == <<"a", "b", "c", "d", "e", "f", "g", "h", "i", "j", "k", "l", "m", "n", "o", "p", "q", "r", "s", "t", "u", "v", "w", "x", "y", "z">>
UpperLetters == <<"A", "B", "C", "D", "E", "F", "G", "H", "I", "J", "K", "L", "M", "N", "O", "P", "Q", "R", "S", "T", "U", "V", "W", "X", "Y", "Z">>

\* String.prototype.toUpperCase on the code points the model uses.
UpperChar(c) ==
    IF \E i \in DOMAIN LowerLetters : LowerLetters[i] = c
    THEN UpperLetters[CHOOSE i \in DOMAIN LowerLetters : LowerLetters[i] = c]
    ELSE c

toUpperCase(s) == [i \in 1..Len(s) |-> UpperChar(s[i])]

-----------------------------------------------------------------------------
(* parseChecks *)

SUCCESS == <<"S", "U", "C", "C", "E", "S", "S">>
NEUTRAL == <<"N", "E", "U", "T", "R", "A", "L">>
SKIPPED == <<"S", "K", "I", "P", "P", "E", "D">>
FAILURE == <<"F", "A", "I", "L", "U", "R", "E">>
TIMED_OUT == <<"T", "I", "M", "E", "D", "_", "O", "U", "T">>
CANCELLED == <<"C", "A", "N", "C", "E", "L", "L", "E", "D">>
ACTION_REQUIRED == <<"A", "C", "T", "I", "O", "N", "_", "R", "E", "Q", "U", "I", "R", "E", "D">>
IN_PROGRESS == <<"I", "N", "_", "P", "R", "O", "G", "R", "E", "S", "S">>
QUEUED == <<"Q", "U", "E", "U", "E", "D">>
PENDING == <<"P", "E", "N", "D", "I", "N", "G">>
WAITING == <<"W", "A", "I", "T", "I", "N", "G">>
COMPLETED == <<"C", "O", "M", "P", "L", "E", "T", "E", "D">>

NoChecks == [total |-> 0, pass |-> 0, fail |-> 0, pending |-> 0]

\* A loop body that leaves an unrecognised check in no bucket.
addCheckDropUnknown(acc, check) ==
    LET conclusion == toUpperCase(OrEmpty(check.conclusion))
        status == toUpperCase(OrEmpty(check.status))
        name == OrEmpty(check.name)
        counted == [acc EXCEPT !.total = @ + 1]
    IN  IF name = <<>> /\ conclusion = <<>> /\ status = <<>> THEN acc
        ELSE IF conclusion \in {SUCCESS, NEUTRAL, SKIPPED}
            THEN [counted EXCEPT !.pass = @ + 1]
        ELSE IF conclusion \in {FAILURE, TIMED_OUT, CANCELLED, ACTION_REQUIRED}
            THEN [counted EXCEPT !.fail = @ + 1]
        ELSE IF status \in {IN_PROGRESS, QUEUED, PENDING, WAITING}
            THEN [counted EXCEPT !.pending = @ + 1]
        ELSE IF status = COMPLETED
            THEN [counted EXCEPT !.pass = @ + 1]
        ELSE counted

\* A loop body that compares the fields as they come, without upper-casing,
\* and looks at the status before the conclusion.
addCheckStatusFirst(acc, check) ==
    LET conclusion == OrEmpty(check.conclusion)
        status == OrEmpty(check.status)
        name == OrEmpty(check.name)
        counted == [acc EXCEPT !.total = @ + 1]
    IN  IF name = <<>> /\ conclusion = <<>> /\ status = <<>> THEN acc
        ELSE IF status \in {IN_PROGRESS, QUEUED, PENDING, WAITING}
            THEN [counted EXCEPT !.pending = @ + 1]
        ELSE IF conclusion \in {SUCCESS, NEUTRAL, SKIPPED}
            THEN [counted EXCEPT !.pass = @ + 1]
        ELSE IF conclusion \in {FAILURE, TIMED_OUT, CANCELLED, ACTION_REQUIRED}
            THEN [counted EXCEPT !.fail = @ + 1]
        ELSE IF status = COMPLETED
            THEN [counted EXCEPT !.pass = @ + 1]
        ELSE [counted EXCEPT !.pending = @ + 1]

\* The body of parseChecks' loop: one check folded into the tally.
addCheck(acc, check) ==
    LET conclusion == toUpperCase(OrEmpty(check.conclusion))
        status == toUpperCase(OrEmpty(check.status))
        name == OrEmpty(check.name)
        counted == [acc EXCEPT !.total = @ + 1]
    IN  IF name = <<>> /\ conclusion = <<>> /\ status = <<>> THEN acc
        ELSE IF conclusion \in {SUCCESS, NEUTRAL, SKIPPED}
            THEN [counted EXCEPT !.pass = @ + 1]
        ELSE IF conclusion \in {FAILURE, TIMED_OUT, CANCELLED, ACTION_REQUIRED}
            THEN [counted EXCEPT !.fail = @ + 1]
        ELSE IF status \in {IN_PROGRESS, QUEUED, PENDING, WAITING}
            THEN [counted EXCEPT !.pending = @ + 1]
        ELSE IF status = COMPLETED
            THEN [counted EXCEPT !.pass = @ + 1]
        ELSE [counted EXCEPT !.pending = @ + 1]

RECURSIVE parseChecksFrom(_, _, _)
parseChecksFrom(rollup, i, acc) ==
    IF i > Len(rollup) THEN acc
    ELSE parseChecksFrom(rollup, i + 1, addCheck(acc, rollup[i]))

parseChecks(rollup) == parseChecksFrom(rollup, 1, NoChecks)

-----------------------------------------------------------------------------
(* The variables of a function while another function is the one applied *)

IdleChecks == statusCheckRollup = <<>> /\ checks = Undefined
IdleFormat == prValue = Undefined /\ statusText = Undefined
IdleUrl == text = <<>> /\ parsed = Undefined
IdleThreads == threadRecords = <<>> /\ unresolvedCount = Undefined
IdleSel ==
    /\ timer = Undefined /\ lastBranch = Undefined /\ lastPr = Undefined
    /\ cachedRepo = Undefined /\ pinnedPr = Null /\ latestCtx = Null
    /\ statusBar = Undefined /\ intervals = 0 /\ hostCtx = Null
    /\ op = Null /\ pre = Null /\ calls = <<>> /\ returned = <<>>

-----------------------------------------------------------------------------
(* Numbers in strings *)

DigitChars == <<"0", "1", "2", "3", "4", "5", "6", "7", "8", "9">>

IsDigit(c) == \E d \in DOMAIN DigitChars : DigitChars[d] = c

DigitValue(c) == (CHOOSE d \in DOMAIN DigitChars : DigitChars[d] = c) - 1

\* A non-negative integer in a template literal: its decimal digits.
RECURSIVE ToDecimal(_)
ToDecimal(n) ==
    IF n < 10 THEN <<DigitChars[n + 1]>>
    ELSE ToDecimal(n \div 10) \o <<DigitChars[(n % 10) + 1]>>

\* parseInt(digits, 10) of a non-empty run of decimal digits.
RECURSIVE parseInt(_)
parseInt(digits) ==
    IF Len(digits) = 0 THEN 0
    ELSE 10 * parseInt(SubSeq(digits, 1, Len(digits) - 1))
            + DigitValue(digits[Len(digits)])

-----------------------------------------------------------------------------
(* formatStatus *)

OPEN == <<"O", "P", "E", "N">>
MERGED == <<"M", "E", "R", "G", "E", "D">>
CLOSED == <<"C", "L", "O", "S", "E", "D">>
HEAD == <<"H", "E", "A", "D">>

PURPLE_CIRCLE == "U+1F7E3"     \* the merged marker
RED_CIRCLE == "U+1F534"        \* the closed marker
GREEN_CIRCLE == "U+1F7E2"      \* the open marker
CROSS_MARK == "U+274C"         \* failed checks
HOURGLASS == "U+23F3"          \* pending checks
CHECK_MARK == "U+2705"         \* passed checks
SPEECH_BALLOON == "U+1F4AC"    \* unresolved threads
SEPARATOR == <<" ", "U+00B7", " ">>

PR_HASH == <<" ", "P", "R", " ", "#">>
CHECKS_FAILED == <<" ", "c", "h", "e", "c", "k", "s", " ", "f", "a", "i", "l", "e", "d">>
CHECKS_PENDING == <<" ", "c", "h", "e", "c", "k", "s", " ", "p", "e", "n", "d", "i", "n", "g">>
CHECKS_PASSED == <<" ", "c", "h", "e", "c", "k", "s", " ", "p", "a", "s", "s", "e", "d">>
UNRESOLVED == <<" ", "u", "n", "r", "e", "s", "o", "l", "v", "e", "d">>

\* Array.prototype.join
RECURSIVE join(_, _)
join(parts, sep) ==
    IF Len(parts) = 0 THEN <<>>
    ELSE IF Len(parts) = 1 THEN parts[1]
    ELSE parts[1] \o sep \o join(Tail(parts), sep)

\* A check segment that looks at the pending count before the failed one.
checkPartsPendingFirst(c) ==
    IF c.total > 0
    THEN IF c.pending > 0
         THEN <<(<<HOURGLASS, " ">> \o ToDecimal(c.pending) \o <<"/">>
                    \o ToDecimal(c.total) \o CHECKS_PENDING)>>
         ELSE IF c.fail > 0
         THEN <<(<<CROSS_MARK, " ">> \o ToDecimal(c.fail) \o <<"/">>
                    \o ToDecimal(c.total) \o CHECKS_FAILED)>>
         ELSE <<(<<CHECK_MARK, " ">> \o ToDecimal(c.total) \o CHECKS_PASSED)>>
    ELSE <<>>

\* The parts formatStatus pushes for the checks: none, or one.
checkParts(c) ==
    IF c.total > 0
    THEN IF c.fail > 0
         THEN <<(<<CROSS_MARK, " ">> \o ToDecimal(c.fail) \o <<"/">>
                    \o ToDecimal(c.total) \o CHECKS_FAILED)>>
         ELSE IF c.pending > 0
         THEN <<(<<HOURGLASS, " ">> \o ToDecimal(c.pending) \o <<"/">>
                    \o ToDecimal(c.total) \o CHECKS_PENDING)>>
         ELSE <<(<<CHECK_MARK, " ">> \o ToDecimal(c.total) \o CHECKS_PASSED)>>
    ELSE <<>>

\* The parts formatStatus pushes for the unresolved threads: none, or one.
threadParts(n) ==
    IF n > 0
    THEN <<(<<SPEECH_BALLOON, " ">> \o ToDecimal(n) \o UNRESOLVED)>>
    ELSE <<>>

stateIcon(state) ==
    IF state = Str(MERGED) THEN PURPLE_CIRCLE
    ELSE IF state = Str(CLOSED) THEN RED_CIRCLE
    ELSE GREEN_CIRCLE

\* A formatStatus that pushes the unresolved threads before the checks and
\* shows a check segment whenever any counter is set.
formatStatusThreadsFirst(p) ==
    join(<<(<<stateIcon(p.state)>> \o PR_HASH \o ToDecimal(p.number))>>
            \o threadParts(p.unresolvedThreads)
            \o checkParts([p.checks EXCEPT
                  !.total = @ + p.checks.pass + p.checks.fail + p.checks.pending])
            \o <<p.url>>,
         SEPARATOR)

formatStatus(p) ==
    join(<<(<<stateIcon(p.state)>> \o PR_HASH \o ToDecimal(p.number))>>
            \o checkParts(p.checks)
            \o threadParts(p.unresolvedThreads)
            \o <<p.url>>,
         SEPARATOR)

-----------------------------------------------------------------------------
(* parsePrUrl *)

\* PR_URL_RE: https:\/\/github\.com\/([^/]+\/[^/]+)\/pull\/(\d+)
GITHUB_COM == <<"h", "t", "t", "p", "s", ":", "/", "/", "g", "i", "t", "h", "u", "b", ".", "c", "o", "m", "/">>
PULL == <<"/", "p", "u", "l", "l", "/">>

\* Whether the literal lit stands in s at position i.
LiteralAt(s, i, lit) ==
    /\ i + Len(lit) - 1 <= Len(s)
    /\ \A k \in 1..Len(lit) : s[i + k - 1] = lit[k]

\* String.prototype.split: the pieces of s between the occurrences of sep.
RECURSIVE Split(_, _)
Split(s, sep) ==
    IF \E i \in 1..Len(s) : LiteralAt(s, i, sep)
    THEN LET i == CHOOSE i \in 1..Len(s) :
                    /\ LiteralAt(s, i, sep)
                    /\ \A k \in 1..(i - 1) : ~LiteralAt(s, k, sep)
         IN  <<SubSeq(s, 1, i - 1)>> \o Split(SubSeq(s, i + Len(sep), Len(s)), sep)
    ELSE <<s>>

\* [^/]+ from position i: the position after the run, i when the run is empty.
\* The run is always followed by a literal "/", so the greedy match is the
\* whole run and no shorter one can succeed.
RECURSIVE AfterNonSlash(_, _)
AfterNonSlash(s, i) ==
    IF i <= Len(s) /\ s[i] # "/" THEN AfterNonSlash(s, i + 1) ELSE i

\* \d+ from position i: the position after the run, i when the run is empty.
RECURSIVE AfterDigits(_, _)
AfterDigits(s, i) ==
    IF i <= Len(s) /\ IsDigit(s[i]) THEN AfterDigits(s, i + 1) ELSE i

\* PR_URL_RE tried at position i: the match, or Null.
MatchAt(s, i) ==
    IF ~LiteralAt(s, i, GITHUB_COM) THEN Null
    ELSE
      LET o == i + Len(GITHUB_COM)
          a == AfterNonSlash(s, o)
      IN  IF a = o \/ ~LiteralAt(s, a, <<"/">>) THEN Null
          ELSE
            LET b == AfterNonSlash(s, a + 1)
            IN  IF b = a + 1 \/ ~LiteralAt(s, b, PULL) THEN Null
                ELSE
                  LET d == b + Len(PULL)
                      e == AfterDigits(s, d)
                  IN  IF e = d THEN Null
                      ELSE [t |-> "match",
                            url |-> SubSeq(s, i, e - 1),
                            repo |-> SubSeq(s, o, b - 1),
                            digits |-> SubSeq(s, d, e - 1)]

\* String.prototype.match with a regular expression without the g flag: the
\* match at the leftmost position that has one.
RECURSIVE matchFrom(_, _)
matchFrom(s, i) ==
    IF i > Len(s) THEN Null
    ELSE IF MatchAt(s, i) # Null THEN MatchAt(s, i)
    ELSE matchFrom(s, i + 1)

\* A match that takes the rightmost position that has one.
RECURSIVE matchFromEnd(_, _)
matchFromEnd(s, i) ==
    IF i < 1 THEN Null
    ELSE IF MatchAt(s, i) # Null THEN MatchAt(s, i)
    ELSE matchFromEnd(s, i - 1)

parsePrUrlLast(s) ==
    LET match == matchFromEnd(s, Len(s))
    IN  IF match = Null THEN Null
        ELSE [t |-> "parsed", url |-> match.url, repo |-> match.repo,
              number |-> parseInt(match.digits)]

parsePrUrl(s) ==
    LET match == matchFrom(s, 1)
    IN  IF match = Null THEN Null
        ELSE [t |-> "parsed", url |-> match.url, repo |-> match.repo,
              number |-> parseInt(match.digits)]

-----------------------------------------------------------------------------
(* The backends: git and gh, run with execSync *)

Num(n) == [t |-> "number", v |-> n]
Arr(elems) == [t |-> "array", v |-> elems]
Obj(fields) == [t |-> "object", v |-> fields]

\* execSync threw: a non-zero exit, a timeout, no such command.
Throw == [t |-> "throw"]

\* !x is false
Truthy(x) ==
    \/ x.t \in {"object", "array", "ctx", "PrInfo", "RepoInfo", "pinned"}
    \/ x.t = "string" /\ x.v # <<>>
    \/ x.t = "number" /\ x.v # 0

\* Array.isArray
IsArray(x) == x.t = "array"

Whitespace == {" ", "U+000A", "U+0009"}

\* String.prototype.trim
RECURSIVE trimStart(_)
trimStart(s) ==
    IF Len(s) > 0 /\ s[1] \in Whitespace THEN trimStart(Tail(s)) ELSE s

RECURSIVE trimEnd(_)
trimEnd(s) ==
    IF Len(s) > 0 /\ s[Len(s)] \in Whitespace
    THEN trimEnd(SubSeq(s, 1, Len(s) - 1)) ELSE s

trim(s) == trimEnd(trimStart(s))

GIT_REV_PARSE == "git rev-parse --abbrev-ref HEAD"
GH_REPO_VIEW == "gh repo view --json owner,name"
GH_PR_VIEW == "gh pr view --json number,title,url,state,statusCheckRollup"
GH_PR_VIEW_N == "gh pr view <prNumber> --repo <repo> --json number,title,url,state,statusCheckRollup"
GH_API_GRAPHQL == "gh api graphql -f query=<reviewThreads>"

\* One execSync: the command, the cwd option (Undefined when none is given)
\* and the repository and number the command line names (Undefined when none).
Cmd(cmd, cwd, repo, number) ==
    [cmd |-> cmd, cwd |-> cwd, repo |-> repo, number |-> number]

\* What a function that runs commands gives back: its value and its commands.
Ran(value, cmds) == [value |-> value, cmds |-> cmds]

\* be is the backend the handler meets: what each command answers while the
\* handler runs (Throw, or its output).

getBranch(cwd, be) ==
    Ran(IF be.branch = Throw THEN Undefined ELSE Str(trim(be.branch.v)),
        <<Cmd(GIT_REV_PARSE, cwd, Undefined, Undefined)>>)

getRepoInfo(cwd, be) ==
    Ran(IF be.repoView = Throw THEN Undefined
        ELSE IF Truthy(be.repoView.owner) /\ Truthy(be.repoView.owner.login)
                /\ Truthy(be.repoView.name)
        THEN [t |-> "RepoInfo", owner |-> be.repoView.owner.login,
              name |-> be.repoView.name]
        ELSE Undefined,
        <<Cmd(GH_REPO_VIEW, cwd, Undefined, Undefined)>>)

\* data?.data?.repository?.pullRequest?.reviewThreads?.nodes
threadNodes(gql) == IF gql.t = "object" THEN gql.nodes ELSE Undefined

\* A count of the threads that are resolved.
RECURSIVE countResolvedThreads(_)
countResolvedThreads(threads) ==
    IF Len(threads) = 0 THEN 0
    ELSE (IF threads[1].isResolved THEN 1 ELSE 0)
            + countResolvedThreads(Tail(threads))

\* threads.filter((t) => !t.isResolved).length
RECURSIVE countUnresolvedThreads(_)
countUnresolvedThreads(threads) ==
    IF Len(threads) = 0 THEN 0
    ELSE (IF ~threads[1].isResolved THEN 1 ELSE 0)
            + countUnresolvedThreads(Tail(threads))

\* The inner try of both queries: the unresolved count the graphql answer
\* gives, 0 when it threw or holds no array of threads.
unresolvedOf(gql) ==
    IF gql = Throw THEN 0
    ELSE IF IsArray(threadNodes(gql)) THEN countUnresolvedThreads(threadNodes(gql).v)
    ELSE 0

\* A return statement whose total is the length of the rollup.
PrInfoOfEveryRecord(pr, unresolvedThreads) ==
    [t |-> "PrInfo",
     number |-> pr.number.v,
     title |-> pr.title,
     url |-> pr.url.v,
     state |-> pr.state,
     checks |-> IF IsArray(pr.statusCheckRollup)
                THEN [parseChecks(pr.statusCheckRollup.v) EXCEPT
                        !.total = Len(pr.statusCheckRollup.v)]
                ELSE NoChecks,
     unresolvedThreads |-> unresolvedThreads]

\* The return statement of both queries.
PrInfoOf(pr, unresolvedThreads) ==
    [t |-> "PrInfo",
     number |-> pr.number.v,
     title |-> pr.title,
     url |-> pr.url.v,
     state |-> pr.state,
     checks |-> IF IsArray(pr.statusCheckRollup)
                THEN parseChecks(pr.statusCheckRollup.v) ELSE NoChecks,
     unresolvedThreads |-> unresolvedThreads]

\* The JSON gh prints for pull request prNumber of repo, from the answer's
\* state, title and check rollup; the answer names the fields gh leaves out.
PrJsonFor(answer, repo, prNumber) ==
    [t |-> "object",
     number |-> IF "number" \in answer.omit THEN Undefined ELSE Num(prNumber),
     title |-> answer.title,
     url |-> IF "url" \in answer.omit THEN Undefined
             ELSE Str(GITHUB_COM \o repo \o PULL \o ToDecimal(prNumber)),
     state |-> answer.state,
     statusCheckRollup |-> answer.statusCheckRollup]

\* A getPrByNumber that asks for a title and a state as well.
getPrByNumberAllFields(repo, prNumber, be) ==
    LET view == Cmd(GH_PR_VIEW_N, Undefined, repo, prNumber)
        out == be.prViewN
    IN  IF out = Throw \/ out.t = "empty" THEN Ran(Undefined, <<view>>)
        ELSE
          LET pr == PrJsonFor(out, repo, prNumber)
              names == Split(repo, <<"/">>)
              owner == names[1]
              name == IF Len(names) > 1 THEN names[2] ELSE <<>>
          IN  IF ~Truthy(pr.number) \/ ~Truthy(pr.url) \/ ~Truthy(pr.title)
                 \/ ~Truthy(pr.state)
              THEN Ran(Undefined, <<view>>)
              ELSE IF owner # <<>> /\ name # <<>>
              THEN Ran(PrInfoOf(pr, unresolvedOf(be.threadsN)),
                       <<view, Cmd(GH_API_GRAPHQL, Undefined, owner \o <<"/">> \o name,
                                   pr.number.v)>>)
              ELSE Ran(PrInfoOf(pr, 0), <<view>>)

getPrByNumber(repo, prNumber, be) ==
    LET view == Cmd(GH_PR_VIEW_N, Undefined, repo, prNumber)
        out == be.prViewN
    IN  IF out = Throw \/ out.t = "empty" THEN Ran(Undefined, <<view>>)
        ELSE
          LET pr == PrJsonFor(out, repo, prNumber)
              names == Split(repo, <<"/">>)
              owner == names[1]
              name == IF Len(names) > 1 THEN names[2] ELSE <<>>
          IN  IF ~Truthy(pr.number) \/ ~Truthy(pr.url) THEN Ran(Undefined, <<view>>)
              ELSE IF owner # <<>> /\ name # <<>>
              THEN Ran(PrInfoOf(pr, unresolvedOf(be.threadsN)),
                       <<view, Cmd(GH_API_GRAPHQL, Undefined, owner \o <<"/">> \o name,
                                   pr.number.v)>>)
              ELSE Ran(PrInfoOf(pr, 0), <<view>>)

\* A getPrForBranch that fails when its query for the threads fails.
getPrForBranchOrNothing(cwd, repo, be) ==
    LET view == Cmd(GH_PR_VIEW, cwd, Undefined, Undefined)
        pr == be.prView
    IN  IF pr = Throw \/ pr.t = "empty" THEN Ran(Undefined, <<view>>)
        ELSE IF ~Truthy(pr.number) \/ ~Truthy(pr.url) THEN Ran(Undefined, <<view>>)
        ELSE IF repo # Undefined
        THEN Ran(IF be.threads = Throw THEN Undefined
                 ELSE PrInfoOf(pr, unresolvedOf(be.threads)),
                 <<view, Cmd(GH_API_GRAPHQL, cwd, repo.owner.v \o <<"/">> \o repo.name.v,
                             pr.number.v)>>)
        ELSE Ran(PrInfoOf(pr, 0), <<view>>)

getPrForBranch(cwd, repo, be) ==
    LET view == Cmd(GH_PR_VIEW, cwd, Undefined, Undefined)
        pr == be.prView
    IN  IF pr = Throw \/ pr.t = "empty" THEN Ran(Undefined, <<view>>)
        ELSE IF ~Truthy(pr.number) \/ ~Truthy(pr.url) THEN Ran(Undefined, <<view>>)
        ELSE IF repo # Undefined
        THEN Ran(PrInfoOf(pr, unresolvedOf(be.threads)),
                 <<view, Cmd(GH_API_GRAPHQL, cwd, repo.owner.v \o <<"/">> \o repo.name.v,
                             pr.number.v)>>)
        ELSE Ran(PrInfoOf(pr, 0), <<view>>)

-----------------------------------------------------------------------------
(* The extension *)

\* The extension's variables and the host's status slot as one value st, so
\* that the functions of the extension can be applied one after the other;
\* cmds and returned collect what they ran and what their queries returned.

Logged(st, ran) == [st EXCEPT !.cmds = @ \o ran.cmds]

Returned(st, fn, ran) ==
    [Logged(st, ran) EXCEPT !.returned = Append(@, [fn |-> fn, pr |-> ran.value])]

hasActiveBranchPr(st) ==
    st.lastPr # Undefined /\ st.lastPr.state = Str(OPEN)

\* A showStatus that leaves the status in place when there is no pull request.
showStatusIfAny(st, pr) ==
    [st EXCEPT !.lastPr = pr,
               !.statusBar = IF pr # Undefined THEN Str(formatStatus(pr)) ELSE @]

showStatus(st, pr) ==
    [st EXCEPT !.lastPr = pr,
               !.statusBar = IF pr # Undefined THEN Str(formatStatus(pr))
                             ELSE Undefined]

\* An update that re-queries the pinned pull request and never looks at the
\* branch.
updatePinnedOnly(st, cwd, be) ==
    LET byNumber == getPrByNumber(st.pinnedPr.repo, st.pinnedPr.number, be)
    IN  showStatus(Returned(st, "getPrByNumber", byNumber), byNumber.value)

\* The pinned half of update, from the re-query of the pinned pull request on.
updatePinned(st, cwd, be) ==
    LET byNumber == getPrByNumber(st.pinnedPr.repo, st.pinnedPr.number, be)
        s1 == showStatus(Returned(st, "getPrByNumber", byNumber), byNumber.value)
    IN  IF byNumber.value = Undefined THEN s1
        ELSE
          LET branch == getBranch(cwd, be)
              real == Truthy(branch.value) /\ branch.value # Str(HEAD)
              s2 == IF real /\ branch.value # s1.lastBranch
                    THEN [Logged(s1, branch) EXCEPT !.lastBranch = branch.value]
                    ELSE Logged(s1, branch)
          IN  IF ~real THEN s2
              ELSE
                LET repoInfo == getRepoInfo(cwd, be)
                    s3 == IF s2.cachedRepo = Undefined
                          THEN [Logged(s2, repoInfo) EXCEPT
                                    !.cachedRepo = repoInfo.value]
                          ELSE s2
                    branchPr == getPrForBranch(cwd, s3.cachedRepo, be)
                    s4 == Returned(s3, "getPrForBranch", branchPr)
                IN  IF branchPr.value # Undefined
                        /\ branchPr.value.state = Str(OPEN)
                    THEN showStatus([s4 EXCEPT !.pinnedPr = Null], branchPr.value)
                    ELSE s4

\* An update that never writes lastBranch.
updateBranchUnnoted(st, cwd, be) ==
    LET branch == getBranch(cwd, be)
        s1 == IF branch.value # st.lastBranch
              THEN [Logged(st, branch) EXCEPT !.lastPr = Undefined]
              ELSE Logged(st, branch)
    IN  IF ~Truthy(branch.value) \/ branch.value = Str(HEAD)
        THEN showStatus(s1, Undefined)
        ELSE
          LET repoInfo == getRepoInfo(cwd, be)
              s2 == IF s1.cachedRepo = Undefined
                    THEN [Logged(s1, repoInfo) EXCEPT !.cachedRepo = repoInfo.value]
                    ELSE s1
              pr == getPrForBranch(cwd, s2.cachedRepo, be)
          IN  showStatus(Returned(s2, "getPrForBranch", pr), pr.value)

\* An update that shows what its query found and leaves the status in place
\* when it found nothing.
updateBranchIfFound(st, cwd, be) ==
    LET branch == getBranch(cwd, be)
        s1 == IF branch.value # st.lastBranch
              THEN [Logged(st, branch) EXCEPT !.lastBranch = branch.value,
                                              !.lastPr = Undefined]
              ELSE Logged(st, branch)
    IN  IF ~Truthy(branch.value) \/ branch.value = Str(HEAD)
        THEN showStatus(s1, Undefined)
        ELSE
          LET repoInfo == getRepoInfo(cwd, be)
              s2 == IF s1.cachedRepo = Undefined
                    THEN [Logged(s1, repoInfo) EXCEPT !.cachedRepo = repoInfo.value]
                    ELSE s1
              pr == getPrForBranch(cwd, s2.cachedRepo, be)
              s3 == Returned(s2, "getPrForBranch", pr)
          IN  IF pr.value # Undefined THEN showStatus(s3, pr.value) ELSE s3

\* An update that takes HEAD for the name of a branch.
updateBranchOfHead(st, cwd, be) ==
    LET branch == getBranch(cwd, be)
        s1 == IF branch.value # st.lastBranch
              THEN [Logged(st, branch) EXCEPT !.lastBranch = branch.value,
                                              !.lastPr = Undefined]
              ELSE Logged(st, branch)
    IN  IF ~Truthy(branch.value)
        THEN showStatus(s1, Undefined)
        ELSE
          LET repoInfo == getRepoInfo(cwd, be)
              s2 == IF s1.cachedRepo = Undefined
                    THEN [Logged(s1, repoInfo) EXCEPT !.cachedRepo = repoInfo.value]
                    ELSE s1
              pr == getPrForBranch(cwd, s2.cachedRepo, be)
          IN  showStatus(Returned(s2, "getPrForBranch", pr), pr.value)

\* The branch half of update, from getBranch on.
updateBranch(st, cwd, be) ==
    LET branch == getBranch(cwd, be)
        s1 == IF branch.value # st.lastBranch
              THEN [Logged(st, branch) EXCEPT !.lastBranch = branch.value,
                                              !.lastPr = Undefined]
              ELSE Logged(st, branch)
    IN  IF ~Truthy(branch.value) \/ branch.value = Str(HEAD)
        THEN showStatus(s1, Undefined)
        ELSE
          LET repoInfo == getRepoInfo(cwd, be)
              s2 == IF s1.cachedRepo = Undefined
                    THEN [Logged(s1, repoInfo) EXCEPT !.cachedRepo = repoInfo.value]
                    ELSE s1
              pr == getPrForBranch(cwd, s2.cachedRepo, be)
          IN  showStatus(Returned(s2, "getPrForBranch", pr), pr.value)

update(st, cwd, be) ==
    IF st.pinnedPr # Null THEN updatePinned(st, cwd, be)
    ELSE updateBranch(st, cwd, be)

\* A tryPinFromUrl that pins the pull request that is pinned once more.
tryPinFromUrlAgain(st, s, ctx, be) ==
    LET found == parsePrUrl(s)
    IN  IF found = Null THEN st
        ELSE IF st.lastPr # Undefined /\ st.lastPr.state = Str(OPEN) THEN st
        ELSE
          LET s1 == [st EXCEPT !.pinnedPr = [t |-> "pinned", repo |-> found.repo,
                                              number |-> found.number],
                               !.latestCtx = ctx]
              pr == getPrByNumber(found.repo, found.number, be)
          IN  showStatus(Returned(s1, "getPrByNumber", pr), pr.value)

\* A tryPinFromUrl that pins and leaves the query to the next poll.
tryPinFromUrlUnshown(st, s, ctx, be) ==
    LET found == parsePrUrl(s)
    IN  IF found = Null THEN st
        ELSE IF st.pinnedPr # Null /\ st.pinnedPr.repo = found.repo
                /\ st.pinnedPr.number = found.number THEN st
        ELSE IF hasActiveBranchPr(st) THEN st
        ELSE [st EXCEPT !.pinnedPr = [t |-> "pinned", repo |-> found.repo,
                                      number |-> found.number],
                        !.latestCtx = ctx]

\* A tryPinFromUrl that pins whatever the branch has.
tryPinFromUrlAnyway(st, s, ctx, be) ==
    LET found == parsePrUrl(s)
    IN  IF found = Null THEN st
        ELSE IF st.pinnedPr # Null /\ st.pinnedPr.repo = found.repo
                /\ st.pinnedPr.number = found.number THEN st
        ELSE
          LET s1 == [st EXCEPT !.pinnedPr = [t |-> "pinned", repo |-> found.repo,
                                              number |-> found.number],
                               !.latestCtx = ctx]
              pr == getPrByNumber(found.repo, found.number, be)
          IN  showStatus(Returned(s1, "getPrByNumber", pr), pr.value)

tryPinFromUrl(st, s, ctx, be) ==
    LET found == parsePrUrl(s)
    IN  IF found = Null THEN st
        ELSE IF st.pinnedPr # Null /\ st.pinnedPr.repo = found.repo
                /\ st.pinnedPr.number = found.number THEN st
        ELSE IF hasActiveBranchPr(st) THEN st
        ELSE
          LET s1 == [st EXCEPT !.pinnedPr = [t |-> "pinned", repo |-> found.repo,
                                              number |-> found.number],
                               !.latestCtx = ctx]
              pr == getPrByNumber(found.repo, found.number, be)
          IN  showStatus(Returned(s1, "getPrByNumber", pr), pr.value)

\* An input handler that does not look at the source of the event.
onInputAnySource(st, event, ctx, be) ==
    tryPinFromUrl([st EXCEPT !.latestCtx = ctx], event.text, ctx, be)

\* pi.on("input", ...)
onInput(st, event, ctx, be) ==
    IF event.source = "extension" THEN st
    ELSE tryPinFromUrl([st EXCEPT !.latestCtx = ctx], event.text, ctx, be)

\* pi.on("before_agent_start", ...)
onBeforeAgentStart(st, event, ctx, be) ==
    tryPinFromUrl([st EXCEPT !.latestCtx = ctx], event.prompt, ctx, be)

\* pi.on("session_start", ...), but for the timer it sets
onSessionStart(st, ctx, be) ==
    update([st EXCEPT !.latestCtx = ctx], ctx.cwd, be)

\* A session_switch handler that resets and leaves the poll to the interval.
onSessionSwitchUnpolled(st, ctx, be) ==
    [st EXCEPT !.lastBranch = Undefined, !.lastPr = Undefined,
               !.cachedRepo = Undefined, !.pinnedPr = Null, !.latestCtx = ctx]

\* A session_switch handler that keeps the cached repository.
onSessionSwitchCached(st, ctx, be) ==
    update([st EXCEPT !.lastBranch = Undefined, !.lastPr = Undefined,
                      !.pinnedPr = Null, !.latestCtx = ctx],
           ctx.cwd, be)

\* pi.on("session_switch", ...)
onSessionSwitch(st, ctx, be) ==
    update([st EXCEPT !.lastBranch = Undefined, !.lastPr = Undefined,
                      !.cachedRepo = Undefined, !.pinnedPr = Null,
                      !.latestCtx = ctx],
           ctx.cwd, be)

\* The callback of the interval
onInterval(st, be) ==
    IF st.latestCtx # Null THEN update(st, st.latestCtx.cwd, be) ELSE st

-----------------------------------------------------------------------------
(* The pull requests formatStatus is applied to *)

MaxCount == 2

PrNumbers == {7, 42, 105}

PrUrls ==
    {GITHUB_COM \o <<"o", "/", "r">> \o PULL \o <<"4", "2">>,
     GITHUB_COM \o <<"a", "/", "b">> \o PULL \o <<"7">>}

\* The three states of a pull request, one the code does not know, and none.
PrStates == {Str(OPEN), Str(MERGED), Str(CLOSED), Str(<<"D", "R", "A", "F", "T">>), Undefined}

\* The pull requests whose counters are at most max.
PrValues(max) ==
    [t : {"PrInfo"}, number : PrNumbers, title : {Str(<<"T">>)}, url : PrUrls,
     state : PrStates,
     checks : [total : 0..max, pass : 0..max, fail : 0..max, pending : 0..max],
     unresolvedThreads : 0..max]

InitFormat ==
    /\ prValue \in PrValues(MaxCount)
    /\ statusText = Undefined
    /\ IdleChecks /\ IdleUrl /\ IdleThreads /\ IdleSel

FormatStatus ==
    /\ statusText = Undefined
    /\ statusText' = Str(formatStatus(prValue))
    /\ UNCHANGED <<prValue, checksVars, urlVars, threadsVars, selVars>>

SpecFormat == InitFormat /\ [][FormatStatus]_vars

-----------------------------------------------------------------------------
(* The texts parsePrUrl is applied to *)

MaxChunks == 4

\* The pieces the texts are put together from.
Chunks ==
    {GITHUB_COM,
     <<"h", "t", "t", "p", "s", ":", "/", "/", "g", "i", "t", "l", "a", "b", ".", "c", "o", "m", "/">>,
     <<"o", "/", "r">>,
     PULL,
     <<"/", "i", "s", "s", "u", "e", "s", "/">>,
     <<"4">>,
     <<"x">>,
     <<"/">>,
     GITHUB_COM \o <<"a", "/", "b">> \o PULL \o <<"1">>}

RECURSIVE Flatten(_)
Flatten(seqs) == IF Len(seqs) = 0 THEN <<>> ELSE seqs[1] \o Flatten(Tail(seqs))

\* The texts of at most max pieces.
Texts(max) == {Flatten(cs) : cs \in UNION {[1..n -> Chunks] : n \in 0..max}}

InitUrl ==
    /\ text \in Texts(MaxChunks)
    /\ parsed = Undefined
    /\ IdleChecks /\ IdleFormat /\ IdleThreads /\ IdleSel

ParsePrUrl ==
    /\ parsed = Undefined
    /\ parsed' = parsePrUrl(text)
    /\ UNCHANGED <<text, checksVars, formatVars, threadsVars, selVars>>

SpecUrl == InitUrl /\ [][ParsePrUrl]_vars

-----------------------------------------------------------------------------
(* The check records parseChecks is applied to *)

MaxChecks == 2

\* name, conclusion and status all missing or empty, in both spellings
GhostLikeChecks ==
    [name : {Null, Str(<<>>), Str(<<"c", "i">>)},
     conclusion : {Null, Str(<<>>)},
     status : {Null, Str(<<>>)}]

\* every conclusion of the vocabulary, two in lower or mixed case, one unknown,
\* against no status, a completed one and a running one
ConclusionChecks ==
    [name : {Null},
     conclusion : {Str(SUCCESS), Str(<<"s", "u", "c", "c", "e", "s", "s">>),
                   Str(NEUTRAL), Str(<<"S", "k", "i", "p", "p", "e", "d">>),
                   Str(FAILURE), Str(TIMED_OUT), Str(CANCELLED),
                   Str(ACTION_REQUIRED), Str(<<"S", "T", "A", "L", "E">>)},
     status : {Null, Str(COMPLETED), Str(IN_PROGRESS)}]

\* every status of the vocabulary, two in lower case, one unknown, against no
\* conclusion and an unknown one
StatusChecks ==
    [name : {Null},
     conclusion : {Null, Str(<<"S", "T", "A", "L", "E">>)},
     status : {Str(IN_PROGRESS), Str(<<"q", "u", "e", "u", "e", "d">>),
               Str(PENDING), Str(WAITING), Str(COMPLETED),
               Str(<<"c", "o", "m", "p", "l", "e", "t", "e", "d">>),
               Str(<<"E", "X", "P", "E", "C", "T", "E", "D">>)}]

CheckRecords == GhostLikeChecks \cup ConclusionChecks \cup StatusChecks

\* The rollups of at most max check records.
Rollups(max) == UNION {[1..n -> CheckRecords] : n \in 0..max}

InitChecks ==
    /\ statusCheckRollup \in Rollups(MaxChecks)
    /\ checks = Undefined
    /\ IdleFormat /\ IdleUrl /\ IdleThreads /\ IdleSel

ParseChecks ==
    /\ checks = Undefined
    /\ checks' = parseChecks(statusCheckRollup)
    /\ UNCHANGED <<statusCheckRollup, formatVars, urlVars, threadsVars, selVars>>

SpecChecks == InitChecks /\ [][ParseChecks]_vars

-----------------------------------------------------------------------------
(* The review threads countUnresolvedThreads is applied to *)

MaxThreads == 6

\* The lists of at most max review threads, each resolved or not.
ThreadLists(max) == UNION {[1..n -> [isResolved : BOOLEAN]] : n \in 0..max}

InitThreads ==
    /\ threadRecords \in ThreadLists(MaxThreads)
    /\ unresolvedCount = Undefined
    /\ IdleChecks /\ IdleFormat /\ IdleUrl /\ IdleSel

CountUnresolvedThreads ==
    /\ unresolvedCount = Undefined
    /\ unresolvedCount' = Num(countUnresolvedThreads(threadRecords))
    /\ UNCHANGED <<threadRecords, checksVars, formatVars, urlVars, selVars>>

SpecThreads == InitThreads /\ [][CountUnresolvedThreads]_vars

-----------------------------------------------------------------------------
(* The events of a session *)

MaxTimers == 2

\* The contexts the host hands to the handlers: two working directories.
Ctxs ==
    {[t |-> "ctx", cwd |-> Str(<<"/", "w", "1">>)],
     [t |-> "ctx", cwd |-> Str(<<"/", "w", "2">>)]}

\* What the user types: no URL, and the URLs of two pull requests.
InputTexts ==
    {<<"h", "i">>,
     <<"s", "e", "e", " ">> \o GITHUB_COM \o <<"a", "/", "b">> \o PULL \o <<"1">>,
     GITHUB_COM \o <<"o", "/", "r">> \o PULL \o <<"4", "2">> \o <<"?">>}

\* git rev-parse: it fails, a detached HEAD, and two branches.
BranchAnswers ==
    {Throw, Str(<<"H", "E", "A", "D", "U+000A">>), Str(<<"m", "a", "i", "n", "U+000A">>), Str(<<"f", "e", "a", "t", "U+000A">>)}

\* gh repo view: it fails, or names the repository o/r.
RepoAnswers ==
    {Throw,
     [t |-> "object", owner |-> [t |-> "object", login |-> Str(<<"o">>)],
      name |-> Str(<<"r">>)]}

OneFailed == Arr(<<[name |-> Str(<<"c", "i">>), conclusion |-> Str(FAILURE),
                    status |-> Str(COMPLETED)]>>)

OnePassed == Arr(<<[name |-> Str(<<"c", "i">>), conclusion |-> Str(SUCCESS),
                    status |-> Str(COMPLETED)]>>)

\* The pull request of the branch as gh pr view prints it: #7 of o/r.
BranchPrJson(state, rollup) ==
    [t |-> "object", number |-> Num(7), title |-> Str(<<"T">>),
     url |-> Str(GITHUB_COM \o <<"o", "/", "r">> \o PULL \o <<"7">>),
     state |-> Str(state), statusCheckRollup |-> rollup]

\* The review threads the graphql query answers with: one of two unresolved.
TwoThreads ==
    [t |-> "object", nodes |-> Arr(<<[isResolved |-> FALSE], [isResolved |-> TRUE]>>)]

\* An answer of the graphql query that holds no list of threads.
NoThreadList == [t |-> "object", nodes |-> Undefined]

\* gh pr view for the branch, with the review threads asked for after it:
\* no pull request, an open one with its threads, without them and without a
\* list of them, a merged one.
BranchPrAnswers ==
    {[prView |-> Throw, threads |-> Throw],
     [prView |-> BranchPrJson(OPEN, OnePassed), threads |-> TwoThreads],
     [prView |-> BranchPrJson(OPEN, OneFailed), threads |-> Throw],
     [prView |-> BranchPrJson(OPEN, OneFailed), threads |-> NoThreadList],
     [prView |-> BranchPrJson(MERGED, Null), threads |-> TwoThreads]}

NumberedPr(state, rollup) ==
    [t |-> "answer", title |-> Str(<<"N">>), state |-> Str(state),
     statusCheckRollup |-> rollup, omit |-> {}]

\* gh pr view <n> --repo, with the review threads asked for after it: no such
\* pull request, an open one with its threads, a closed one without them and
\* without a list of them.
NumberAnswers ==
    {[prViewN |-> Throw, threadsN |-> Throw],
     [prViewN |-> NumberedPr(OPEN, OneFailed), threadsN |-> TwoThreads],
     [prViewN |-> NumberedPr(CLOSED, Null), threadsN |-> Throw],
     [prViewN |-> NumberedPr(CLOSED, Null), threadsN |-> NoThreadList]}

Backend(b, r, bp, np) ==
    [branch |-> b, repoView |-> r, prView |-> bp.prView, threads |-> bp.threads,
     prViewN |-> np.prViewN, threadsN |-> np.threadsN]

\* A backend where every command fails.
Down ==
    [branch |-> Throw, repoView |-> Throw, prView |-> Throw, threads |-> Throw,
     prViewN |-> Throw, threadsN |-> Throw]

\* The backends a poll can meet.  The answer of a command the poll cannot
\* run is left at that of Down: with no pin, a query by number; with a cached
\* repository, gh repo view.
PollBackends(pinned, cached) ==
    {Backend(b, r, bp, np) :
        b \in BranchAnswers,
        r \in IF cached THEN {Throw} ELSE RepoAnswers,
        bp \in BranchPrAnswers,
        np \in IF pinned THEN NumberAnswers ELSE {Down}}

\* The backends a text can meet: tryPinFromUrl runs no command of the
\* working directory, so their answers are left at those of Down.
TextBackends ==
    {Backend(Throw, Throw, Down, np) : np \in NumberAnswers}

\* The extension's variables and the status slot as the handlers see them.
Entry ==
    [lastBranch |-> lastBranch, lastPr |-> lastPr, cachedRepo |-> cachedRepo,
     pinnedPr |-> pinnedPr, latestCtx |-> latestCtx, statusBar |-> statusBar,
     cmds |-> <<>>, returned |-> <<>>]

\* The host is between two events: the handler of the last one has returned.
Idle == op = Null

\* The handler of an event of the given kind ran from Entry to st.
Handled(kind, ctx, source, s, be, st) ==
    /\ Idle
    /\ lastBranch' = st.lastBranch
    /\ lastPr' = st.lastPr
    /\ cachedRepo' = st.cachedRepo
    /\ pinnedPr' = st.pinnedPr
    /\ latestCtx' = st.latestCtx
    /\ statusBar' = st.statusBar
    /\ calls' = st.cmds
    /\ returned' = st.returned
    /\ pre' = Entry
    /\ op' = [t |-> "op", kind |-> kind, ctx |-> ctx, source |-> source,
              text |-> s, be |-> be]
    /\ UNCHANGED <<checksVars, formatVars, urlVars, threadsVars>>

Init == IdleChecks /\ IdleFormat /\ IdleUrl /\ IdleThreads /\ IdleSel

\* session_start: the handler, then setInterval
SessionStart ==
    /\ intervals < MaxTimers
    /\ \E ctx \in Ctxs, be \in PollBackends(pinnedPr # Null, cachedRepo # Undefined) :
        /\ Handled("session_start", ctx, "", <<>>, be, onSessionStart(Entry, ctx, be))
        /\ hostCtx' = ctx
    /\ timer' = [t |-> "object"]
    /\ intervals' = intervals + 1

SessionSwitch ==
    /\ hostCtx # Null
    /\ \E ctx \in Ctxs, be \in PollBackends(FALSE, FALSE) :
        /\ Handled("session_switch", ctx, "", <<>>, be, onSessionSwitch(Entry, ctx, be))
        /\ hostCtx' = ctx
    /\ UNCHANGED <<timer, intervals>>

SessionShutdown ==
    /\ hostCtx # Null
    /\ Handled("session_shutdown", hostCtx, "", <<>>, Down, Entry)
    /\ IF Truthy(timer)
       THEN timer' = Undefined /\ intervals' = intervals - 1
       ELSE UNCHANGED <<timer, intervals>>
    /\ UNCHANGED hostCtx

Input ==
    /\ hostCtx # Null
    /\ \E source \in {"interactive", "extension"}, s \in InputTexts,
          be \in TextBackends :
        Handled("input", hostCtx, source, s, be,
                onInput(Entry, [source |-> source, text |-> s], hostCtx, be))
    /\ UNCHANGED <<timer, intervals, hostCtx>>

BeforeAgentStart ==
    /\ hostCtx # Null
    /\ \E s \in InputTexts, be \in TextBackends :
        Handled("before_agent_start", hostCtx, "", s, be,
                onBeforeAgentStart(Entry, [prompt |-> s], hostCtx, be))
    /\ UNCHANGED <<timer, intervals, hostCtx>>

\* One period of a running interval has passed.
Tick ==
    /\ intervals > 0
    /\ \E be \in PollBackends(pinnedPr # Null, cachedRepo # Undefined) :
        Handled("tick", Null, "", <<>>, be, onInterval(Entry, be))
    /\ UNCHANGED <<timer, intervals, hostCtx>>

\* The handler has returned: what it was called with and what it ran are
\* gone with its frame.
Return ==
    /\ ~Idle
    /\ op' = Null
    /\ pre' = Null
    /\ calls' = <<>>
    /\ returned' = <<>>
    /\ UNCHANGED <<extVars, hostVars, checksVars, formatVars, urlVars, threadsVars>>

Next ==
    \/ SessionStart
    \/ SessionSwitch
    \/ SessionShutdown
    \/ Input
    \/ BeforeAgentStart
    \/ Tick
    \/ Return

Spec == Init /\ [][Next]_vars

-----------------------------------------------------------------------------
(* A rollup on its way to the status *)

\* gh pr view answers with the rollup: the by-branch query makes a pull
\* request of it and showStatus formats that.
ShowRollup ==
    /\ checks = Undefined
    /\ LET be == [Down EXCEPT !.prView = BranchPrJson(OPEN, Arr(statusCheckRollup))]
           pr == getPrForBranch(Str(<<"/", "w", "1">>), Undefined, be).value
       IN  /\ checks' = pr.checks
           /\ prValue' = pr
           /\ statusText' = Str(formatStatus(pr))
    /\ UNCHANGED <<statusCheckRollup, urlVars, threadsVars, selVars>>

SpecRollup == InitChecks /\ [][ShowRollup]_vars

-----------------------------------------------------------------------------
(* A session whose branch has an open pull request from some point on *)

\* The extension's variables as declared.
Fresh ==
    [lastBranch |-> Undefined, lastPr |-> Undefined, cachedRepo |-> Undefined,
     pinnedPr |-> Null, latestCtx |-> Null, statusBar |-> Undefined,
     cmds |-> <<>>, returned |-> <<>>]

\* The extension after a session_start in ctx, whatever the backends answered.
Started(ctx) ==
    {onSessionStart(Fresh, ctx, be) : be \in PollBackends(FALSE, FALSE)}

\* The extension after a session_start and an input of the user in ctx.
Typed(ctx) ==
    {onInput(st, [source |-> "interactive", text |-> s], ctx, be) :
        st \in Started(ctx), s \in InputTexts, be \in TextBackends}

\* From here on git names the branch main, gh repo view answers, and gh pr
\* view finds an OPEN pull request for the branch, with its threads; a query
\* by number may still fail.
SteadyBackends ==
    {Backend(Str(<<"m", "a", "i", "n", "U+000A">>),
             [t |-> "object", owner |-> [t |-> "object", login |-> Str(<<"o">>)],
              name |-> Str(<<"r">>)],
             [prView |-> BranchPrJson(OPEN, OnePassed), threads |-> TwoThreads],
             np) : np \in NumberAnswers}

\* The point from which the branch has its pull request: after a
\* session_start and an input, whatever the backends answered until then.
InitSteady ==
    /\ \E ctx \in Ctxs :
        \E st \in Typed(ctx) :
            /\ lastBranch = st.lastBranch
            /\ lastPr = st.lastPr
            /\ cachedRepo = st.cachedRepo
            /\ pinnedPr = st.pinnedPr
            /\ latestCtx = st.latestCtx
            /\ statusBar = st.statusBar
            /\ hostCtx = ctx
    /\ timer = [t |-> "object"]
    /\ intervals = 1
    /\ op = Null /\ pre = Null /\ calls = <<>> /\ returned = <<>>
    /\ IdleChecks /\ IdleFormat /\ IdleUrl /\ IdleThreads

SteadyTick ==
    /\ intervals > 0
    /\ \E be \in SteadyBackends :
        Handled("tick", Null, "", <<>>, be, onInterval(Entry, be))
    /\ UNCHANGED <<timer, intervals, hostCtx>>

SteadyNext ==
    \/ SteadyTick
    \/ Return

\* The interval keeps firing and every handler returns.
SpecSteady ==
    InitSteady /\ [][SteadyNext]_vars /\ WF_vars(SteadyTick) /\ WF_vars(Return)

-----------------------------------------------------------------------------
(* A session where gh pr view leaves fields out of its answer *)

\* The fields both queries ask gh pr view for, the rollup aside.
PrFields == {"number", "title", "url", "state"}

\* gh pr view for the branch: the OPEN pull request #7 in full, and with one
\* of its fields left out.
PartialBranchAnswers ==
    {[prView |-> BranchPrJson(OPEN, OnePassed), threads |-> TwoThreads]}
    \cup {[prView |-> [BranchPrJson(OPEN, OnePassed) EXCEPT ![f] = Undefined],
           threads |-> TwoThreads] : f \in PrFields}

\* gh pr view <n> --repo: an OPEN pull request in full, and with one of its
\* fields left out.
PartialNumberAnswers ==
    {[prViewN |-> NumberedPr(OPEN, OneFailed), threadsN |-> TwoThreads]}
    \cup {[prViewN |-> [NumberedPr(OPEN, OneFailed) EXCEPT
                          !.omit = {f} \cap {"number", "url"},
                          !.title = IF f = "title" THEN Undefined ELSE @,
                          !.state = IF f = "state" THEN Undefined ELSE @],
           threadsN |-> TwoThreads] : f \in PrFields}

\* git names the branch main, gh repo view answers.
PartialBackends ==
    {Backend(Str(<<"m", "a", "i", "n", "U+000A">>),
             [t |-> "object", owner |-> [t |-> "object", login |-> Str(<<"o">>)],
              name |-> Str(<<"r">>)],
             bp, np) : bp \in PartialBranchAnswers, np \in PartialNumberAnswers}

PartialStart ==
    /\ intervals < MaxTimers
    /\ \E ctx \in Ctxs, be \in PartialBackends :
        /\ Handled("session_start", ctx, "", <<>>, be, onSessionStart(Entry, ctx, be))
        /\ hostCtx' = ctx
    /\ timer' = [t |-> "object"]
    /\ intervals' = intervals + 1

PartialInput ==
    /\ hostCtx # Null
    /\ \E s \in InputTexts, be \in PartialBackends :
        Handled("input", hostCtx, "interactive", s, be,
                onInput(Entry, [source |-> "interactive", text |-> s], hostCtx, be))
    /\ UNCHANGED <<timer, intervals, hostCtx>>

PartialTick ==
    /\ intervals > 0
    /\ \E be \in PartialBackends :
        Handled("tick", Null, "", <<>>, be, onInterval(Entry, be))
    /\ UNCHANGED <<timer, intervals, hostCtx>>

PartialNext ==
    \/ PartialStart
    \/ PartialInput
    \/ PartialTick
    \/ Return

SpecPartial == Init /\ [][PartialNext]_vars

-----------------------------------------------------------------------------
(* Claims about parseChecks *)

\* Two strings equal up to the case of their ASCII letters.
SameLetter(a, b) ==
    \/ a = b
    \/ \E k \in DOMAIN LowerLetters :
          {a, b} = {LowerLetters[k], UpperLetters[k]}

EqIgnoreCase(a, b) ==
    /\ Len(a) = Len(b)
    /\ \A i \in 1..Len(a) : SameLetter(a[i], b[i])

Among(x, words) ==
    /\ x.t = "string"
    /\ \E w \in words : EqIgnoreCase(x.v, w)

Blank(x) == x \in {Undefined, Null, Str(<<>>)}

\* A ghost: name, conclusion and status all missing or empty.
IsGhost(c) == Blank(c.name) /\ Blank(c.conclusion) /\ Blank(c.status)

\* The reference table of the classification.
RefBucket(c) ==
    IF Among(c.conclusion, {SUCCESS, NEUTRAL, SKIPPED}) THEN "pass"
    ELSE IF Among(c.conclusion, {FAILURE, TIMED_OUT, CANCELLED, ACTION_REQUIRED})
        THEN "fail"
    ELSE IF Among(c.status, {IN_PROGRESS, QUEUED, PENDING, WAITING}) THEN "pending"
    ELSE IF Among(c.status, {COMPLETED}) THEN "pass"
    ELSE "pending"

Counted(rollup) == {i \in DOMAIN rollup : ~IsGhost(rollup[i])}

InBucket(rollup, b) == {i \in Counted(rollup) : RefBucket(rollup[i]) = b}

WithoutGhosts(rollup) == SelectSeq(rollup, LAMBDA c : ~IsGhost(c))

\* C6: the tally parseChecks returns has pass + fail + pending = total, total
\* is the number of records that are not ghosts, and the ghosts change no
\* counter (the tally is that of the records without them).
C6_TallyAddsUp ==
    checks # Undefined =>
        /\ checks.pass + checks.fail + checks.pending = checks.total
        /\ checks.total = Cardinality(Counted(statusCheckRollup))
        /\ checks = parseChecks(WithoutGhosts(statusCheckRollup))

\* C6 witness: a rollup of a ghost and a counted record has been tallied.
C6_Witness ==
    /\ checks # Undefined
    /\ Len(statusCheckRollup) = 2
    /\ IsGhost(statusCheckRollup[1])
    /\ ~IsGhost(statusCheckRollup[2])
    /\ checks.total = 1

\* C7: every counted record lands in the bucket the reference table gives it,
\* case-insensitively, a recognised conclusion deciding whatever the status.
C7_ClassifiedAsTable ==
    checks # Undefined =>
        /\ checks.pass = Cardinality(InBucket(statusCheckRollup, "pass"))
        /\ checks.fail = Cardinality(InBucket(statusCheckRollup, "fail"))
        /\ checks.pending = Cardinality(InBucket(statusCheckRollup, "pending"))

\* C7 witness: a lower-case success whose status is still running counted as
\* a pass, beside a completed check of unknown conclusion.
C7_Witness ==
    /\ checks # Undefined
    /\ Len(statusCheckRollup) = 2
    /\ statusCheckRollup[1].conclusion = Str(<<"s", "u", "c", "c", "e", "s", "s">>)
    /\ statusCheckRollup[1].status = Str(IN_PROGRESS)
    /\ statusCheckRollup[2].conclusion = Str(<<"S", "T", "A", "L", "E">>)
    /\ statusCheckRollup[2].status = Str(<<"c", "o", "m", "p", "l", "e", "t", "e", "d">>)
    /\ checks = [total |-> 2, pass |-> 2, fail |-> 0, pending |-> 0]

-----------------------------------------------------------------------------
(* Claims about formatStatus *)

Has(s, c) == \E i \in 1..Len(s) : s[i] = c

AllDigits(s) == Len(s) > 0 /\ \A i \in 1..Len(s) : IsDigit(s[i])

\* The marker the claim gives each state.
MarkerOf(state) ==
    IF state = Str(OPEN) THEN {GREEN_CIRCLE}
    ELSE IF state = Str(MERGED) THEN {PURPLE_CIRCLE}
    ELSE IF state = Str(CLOSED) THEN {RED_CIRCLE}
    ELSE {GREEN_CIRCLE, PURPLE_CIRCLE, RED_CIRCLE}

IsMarkerSegment(seg, p) ==
    /\ Len(seg) > 1 + Len(PR_HASH)
    /\ seg[1] \in MarkerOf(p.state)
    /\ SubSeq(seg, 2, 1 + Len(PR_HASH)) = PR_HASH
    /\ AllDigits(SubSeq(seg, 2 + Len(PR_HASH), Len(seg)))
    /\ parseInt(SubSeq(seg, 2 + Len(PR_HASH), Len(seg))) = p.number

IsCheckSegment(seg) ==
    Len(seg) > 0 /\ seg[1] \in {CROSS_MARK, HOURGLASS, CHECK_MARK}

IsThreadSegment(seg) == Len(seg) > 0 /\ seg[1] = SPEECH_BALLOON

Indicator(b) == IF b THEN 1 ELSE 0

\* C8: the status is, joined by " · " and in this order, the state marker with
\* "PR #<number>", one check segment exactly when checks.total > 0, the
\* unresolved segment exactly when unresolvedThreads > 0, and the URL last;
\* OPEN, MERGED and CLOSED have three distinct markers.
C8_SegmentsInOrder ==
    statusText # Undefined =>
        LET p == prValue
            segs == Split(statusText.v, SEPARATOR)
            n == Len(segs)
            hasChecks == p.checks.total > 0
            hasThreads == p.unresolvedThreads > 0
        IN  /\ n = 2 + Indicator(hasChecks) + Indicator(hasThreads)
            /\ IsMarkerSegment(segs[1], p)
            /\ segs[n] = p.url
            /\ hasChecks => IsCheckSegment(segs[2])
            /\ hasThreads => IsThreadSegment(segs[n - 1])
            /\ Cardinality({i \in 1..n : IsCheckSegment(segs[i])})
                  = Indicator(hasChecks)
            /\ Cardinality({i \in 1..n : IsThreadSegment(segs[i])})
                  = Indicator(hasThreads)
            /\ Cardinality({GREEN_CIRCLE, PURPLE_CIRCLE, RED_CIRCLE}) = 3

\* C8 witness: a merged pull request with checks and unresolved threads has
\* been formatted into four segments.
C8_Witness ==
    /\ statusText # Undefined
    /\ prValue.state = Str(MERGED)
    /\ prValue.checks.total > 0
    /\ prValue.unresolvedThreads > 0
    /\ prValue.number = 105
    /\ Len(Split(statusText.v, SEPARATOR)) = 4
    /\ statusText.v[1] = PURPLE_CIRCLE

\* C9: when checks.total > 0 the one check segment is the failed one if
\* fail > 0, else the pending one if pending > 0, else the passed one, and a
\* status with the failed segment holds neither the pending nor the passed one.
C9_FailedFirst ==
    (statusText # Undefined /\ prValue.checks.total > 0) =>
        LET c == prValue.checks
            segs == Split(statusText.v, SEPARATOR)
            seg == segs[2]
            tail == IF c.fail > 0 THEN CHECKS_FAILED
                    ELSE IF c.pending > 0 THEN CHECKS_PENDING
                    ELSE CHECKS_PASSED
        IN  /\ seg[1] = (IF c.fail > 0 THEN CROSS_MARK
                         ELSE IF c.pending > 0 THEN HOURGLASS
                         ELSE CHECK_MARK)
            /\ Len(seg) > Len(tail)
            /\ SubSeq(seg, Len(seg) - Len(tail) + 1, Len(seg)) = tail
            /\ Cardinality({i \in 1..Len(segs) : IsCheckSegment(segs[i])}) = 1
            /\ Has(statusText.v, CROSS_MARK) =>
                  /\ ~Has(statusText.v, HOURGLASS)
                  /\ ~Has(statusText.v, CHECK_MARK)

\* C9 witness: a pull request with failed and pending checks has been
\* formatted, and its status shows the failed segment.
C9_Witness ==
    /\ statusText # Undefined
    /\ prValue.checks.total > 0
    /\ prValue.checks.fail > 0
    /\ prValue.checks.pending > 0
    /\ Has(statusText.v, CROSS_MARK)

-----------------------------------------------------------------------------
(* Claims about parsePrUrl *)

HTTPS == <<"h", "t", "t", "p", "s", ":", "/", "/">>

\* The position of the first "/" of s at or after position j, 0 if none.
NextSlash(s, j) ==
    IF \E k \in j..Len(s) : s[k] = "/"
    THEN CHOOSE k \in j..Len(s) :
            s[k] = "/" /\ \A m \in j..(k - 1) : s[m] # "/"
    ELSE 0

HostEnd(s, i) == NextSlash(s, i + Len(HTTPS))
OwnerEnd(s, i) == NextSlash(s, HostEnd(s, i) + 1)
RepoEnd(s, i) == NextSlash(s, OwnerEnd(s, i) + 1)

\* https://<host>/<owner>/<repo>/pull/<digits> stands in s at position i,
\* host, owner and repo being non-empty and without a slash.
HostedUrlAt(s, i) ==
    /\ LiteralAt(s, i, HTTPS)
    /\ HostEnd(s, i) > i + Len(HTTPS)
    /\ OwnerEnd(s, i) > HostEnd(s, i) + 1
    /\ RepoEnd(s, i) > OwnerEnd(s, i) + 1
    /\ LiteralAt(s, RepoEnd(s, i), PULL)
    /\ RepoEnd(s, i) + Len(PULL) <= Len(s)
    /\ IsDigit(s[RepoEnd(s, i) + Len(PULL)])

\* The same with the host github.com.
GithubUrlAt(s, i) == HostedUrlAt(s, i) /\ LiteralAt(s, i, GITHUB_COM)

UrlRepo(s, i) == SubSeq(s, HostEnd(s, i) + 1, RepoEnd(s, i) - 1)

\* The digits of the URL at i, to the end of their run.
UrlDigits(s, i) ==
    LET d == RepoEnd(s, i) + Len(PULL)
        e == CHOOSE e \in d..Len(s) :
                /\ \A k \in d..e : IsDigit(s[k])
                /\ e = Len(s) \/ ~IsDigit(s[e + 1])
    IN  SubSeq(s, d, e)

RECURSIVE StripZeros(_)
StripZeros(digits) ==
    IF Len(digits) > 1 /\ digits[1] = "0" THEN StripZeros(Tail(digits)) ELSE digits

\* C10 as stated: a text that holds https://<host>/<owner>/<repo>/pull/<digits>
\* for any host parses to the repo and number of such a URL in it, and a text
\* that holds none parses to no match.
C10_AnyHost ==
    parsed # Undefined =>
        IF \E i \in 1..Len(text) : HostedUrlAt(text, i)
        THEN /\ parsed # Null
             /\ \E i \in 1..Len(text) :
                    /\ HostedUrlAt(text, i)
                    /\ parsed.repo = UrlRepo(text, i)
                    /\ ToDecimal(parsed.number) = StripZeros(UrlDigits(text, i))
        ELSE parsed = Null

\* C10 amended: the host must be github.com; the result is the repo and the
\* number (all the digits that follow /pull/) of the leftmost such URL of the
\* text, and a text that holds none parses to no match.
C10_GithubUrl ==
    parsed # Undefined =>
        LET at == {i \in 1..Len(text) : GithubUrlAt(text, i)}
        IN  IF at # {}
            THEN LET i == CHOOSE i \in at : \A k \in at : i <= k
                 IN  /\ parsed # Null
                     /\ parsed.repo = UrlRepo(text, i)
                     /\ ToDecimal(parsed.number) = StripZeros(UrlDigits(text, i))
                     /\ parsed.url = SubSeq(text, i, i + Len(parsed.url) - 1)
            ELSE parsed = Null

\* C10 witness: a github.com pull-request URL between other text has been
\* parsed to its repo and number.
C10_Witness ==
    /\ parsed # Undefined
    /\ parsed # Null
    /\ text = <<"x">> \o GITHUB_COM \o <<"a", "/", "b">> \o PULL \o <<"1", "x">>
    /\ parsed.repo = <<"a", "/", "b">>
    /\ parsed.number = 1

-----------------------------------------------------------------------------
(* Claims about the selector *)

\* The text holds the URL of a pull request; the position of its first; the
\* pin, or what is given for one, names the repo and number of that URL.
HasUrl(s) == \E i \in 1..Len(s) : GithubUrlAt(s, i)

FirstUrl(s) ==
    CHOOSE i \in 1..Len(s) :
        GithubUrlAt(s, i) /\ \A k \in 1..(i - 1) : ~GithubUrlAt(s, k)

Names(pin, s) ==
    /\ pin # Null
    /\ HasUrl(s)
    /\ pin.repo = UrlRepo(s, FirstUrl(s))
    /\ ToDecimal(pin.number) = StripZeros(UrlDigits(s, FirstUrl(s)))

\* The last event was an input or a before_agent_start; it came from the user.
TextEvent == ~Idle /\ op.kind \in {"input", "before_agent_start"}

UserText == TextEvent /\ op.source # "extension"

PollTick == ~Idle /\ op.kind = "tick"

IsOpen(pr) == pr # Undefined /\ pr.state = Str(OPEN)

\* The status slot holds the line of pr, nothing for no pull request.
Shows(slot, pr) ==
    IF pr = Undefined THEN slot = Undefined ELSE slot = Str(formatStatus(pr))

\* The commands run were exactly these, in this order.
RanOnly(cmds) ==
    /\ Len(calls) = Len(cmds)
    /\ \A i \in 1..Len(cmds) : calls[i].cmd = cmds[i]

\* C1: where the pull request selected for the branch is OPEN, an input or
\* before_agent_start event whose text holds a pull-request URL leaves the pin,
\* lastPr and the displayed status as they were and queries no pull request.
C1_OpenBranchPrKept ==
    (TextEvent /\ HasUrl(op.text) /\ pre.pinnedPr = Null /\ IsOpen(pre.lastPr)) =>
        /\ pinnedPr = pre.pinnedPr
        /\ lastPr = pre.lastPr
        /\ statusBar = pre.statusBar
        /\ returned = <<>>
        /\ calls = <<>>

\* C1 witness: the user has typed the URL of o/r#42 while the open pull
\* request #7 of the branch was shown, and #7 is still shown.
C1_Witness ==
    /\ UserText
    /\ op.kind = "input"
    /\ Names([repo |-> <<"o", "/", "r">>, number |-> 42], op.text)
    /\ pre.pinnedPr = Null
    /\ IsOpen(pre.lastPr)
    /\ lastPr.number = 7
    /\ statusBar # Undefined

\* The branch of the backend is a branch, and gh pr view finds an OPEN pull
\* request for it.
BranchHasOpenPr(be) ==
    /\ be.branch # Throw
    /\ trim(be.branch.v) \notin {<<>>, HEAD}
    /\ be.prView # Throw
    /\ be.prView.state = Str(OPEN)

\* The tick ended with the pin cleared and the pull request of the branch
\* as lastPr and in the status slot.
SwitchedToBranchPr ==
    /\ pinnedPr = Null
    /\ lastPr # Undefined
    /\ lastPr.url = op.be.prView.url.v
    /\ lastPr.state = Str(OPEN)
    /\ Shows(statusBar, lastPr)

C3_PinsAndShows ==
    (UserText /\ HasUrl(op.text) /\ ~Names(pre.pinnedPr, op.text)
        /\ ~(pre.pinnedPr = Null /\ IsOpen(pre.lastPr))) =>
        /\ Names(pinnedPr, op.text)
        /\ Len(returned) = 1
        /\ returned[1].fn = "getPrByNumber"
        /\ Len(calls) >= 1
        /\ calls[1].cmd = GH_PR_VIEW_N
        /\ calls[1].repo = pinnedPr.repo
        /\ calls[1].number = pinnedPr.number
        /\ lastPr = returned[1].pr
        /\ Shows(statusBar, lastPr)

\* C3 fails where the pinned pull request is OPEN: hasActiveBranchPr looks at
\* lastPr, which then is the pinned pull request, and the URL is ignored.

SessionSwitched == ~Idle /\ op.kind = "session_switch"

\* What git rev-parse names: nothing when it fails; whether that is a branch.
BranchOf(be) == IF be.branch = Throw THEN Undefined ELSE Str(trim(be.branch.v))

IsBranch(b) == b # Undefined /\ b.v # <<>> /\ b # Str(HEAD)

\* Every command that runs in a working directory ran in cwd.
RanIn(cwd) == \A i \in 1..Len(calls) : calls[i].cwd \in {Undefined, cwd}

\* C4: after a session_switch, from any state, the pin is empty; cachedRepo,
\* lastBranch and lastPr hold what the commands answered in the new working
\* directory during the switch, nothing of before; the status shown is that
\* of a poll without a pin in the new working directory; and every tick runs
\* its commands in the working directory of the session.
C4_SwitchStartsAfresh ==
    /\ SessionSwitched =>
        /\ pinnedPr = Null
        /\ latestCtx = op.ctx
        /\ \A i \in 1..Len(calls) : calls[i].cwd = op.ctx.cwd
        /\ lastBranch = BranchOf(op.be)
        /\ cachedRepo =
              IF IsBranch(BranchOf(op.be)) /\ op.be.repoView # Throw
              THEN [t |-> "RepoInfo", owner |-> op.be.repoView.owner.login,
                    name |-> op.be.repoView.name]
              ELSE Undefined
        /\ IF IsBranch(BranchOf(op.be))
           THEN /\ Len(returned) = 1
                /\ returned[1].fn = "getPrForBranch"
                /\ lastPr = returned[1].pr
                /\ lastPr = Undefined <=> op.be.prView = Throw
                /\ lastPr # Undefined =>
                      /\ lastPr.url = op.be.prView.url.v
                      /\ lastPr.state = op.be.prView.state
           ELSE returned = <<>> /\ lastPr = Undefined
        /\ Shows(statusBar, lastPr)
    /\ PollTick =>
        /\ pre.latestCtx = hostCtx
        /\ RanIn(hostCtx.cwd)
        /\ Len(calls) >= 1

\* C4 witness: with a pull request pinned and a repository cached in one
\* working directory, the session has switched to the other, where gh repo
\* view fails and the branch has the pull request #7, now shown.
C4_Witness ==
    /\ SessionSwitched
    /\ pre.pinnedPr # Null
    /\ pre.cachedRepo # Undefined
    /\ pre.latestCtx # op.ctx
    /\ cachedRepo = Undefined
    /\ lastPr # Undefined
    /\ lastPr.number = 7
    /\ statusBar # Undefined

\* git rev-parse fails, or prints HEAD.
NoBranch(be) ==
    be.branch = Throw \/ be.branch = Str(<<"H", "E", "A", "D", "U+000A">>)

\* C5: on a tick without a pin, if the branch cannot be resolved or is HEAD,
\* the tick clears lastPr, shows nothing, and runs neither gh repo view nor
\* a query for a pull request; a failure and HEAD end alike.
C5_NoBranchNoSelection ==
    (PollTick /\ pre.pinnedPr = Null /\ NoBranch(op.be)) =>
        /\ lastPr = Undefined
        /\ statusBar = Undefined
        /\ RanOnly(<<GIT_REV_PARSE>>)
        /\ returned = <<>>

\* C5 witness: the pull request of the branch was shown, no pin; a tick has
\* found HEAD detached, in a repository that has a pull request to show, and
\* nothing is shown.
C5_Witness ==
    /\ PollTick
    /\ pre.pinnedPr = Null
    /\ pre.lastPr # Undefined
    /\ op.be.branch = Str(<<"H", "E", "A", "D", "U+000A">>)
    /\ op.be.prView # Throw
    /\ lastPr = Undefined
    /\ statusBar = Undefined

-----------------------------------------------------------------------------
(* Claims about countUnresolvedThreads *)

\* C11: countUnresolvedThreads returns the number of the records whose
\* isResolved is false: 0 for no record, 0 for resolved records only.
C11_CountsTheUnresolved ==
    unresolvedCount # Undefined =>
        /\ unresolvedCount =
              Num(Cardinality({i \in DOMAIN threadRecords :
                                  threadRecords[i].isResolved = FALSE}))
        /\ threadRecords = <<>> => unresolvedCount = Num(0)
        /\ (\A i \in DOMAIN threadRecords : threadRecords[i].isResolved)
              => unresolvedCount = Num(0)

\* C11 witness: of an unresolved, a resolved and an unresolved thread, two
\* have been counted.
C11_Witness ==
    /\ threadRecords = <<[isResolved |-> FALSE], [isResolved |-> TRUE],
                         [isResolved |-> FALSE]>>
    /\ unresolvedCount = Num(2)

-----------------------------------------------------------------------------
(* Claims about the queries *)

Handling == ~Idle

\* The answer of gh pr view holds a pull request.
Found(primary) == primary # Throw

\* The answer of the graphql query gives no count: it failed, or holds no
\* list of threads.
NoCount(gql) == gql = Throw \/ ~IsArray(gql.nodes)

\* The tally of the rollup of a gh pr view answer.
TallyOf(primary) ==
    IF IsArray(primary.statusCheckRollup)
    THEN parseChecks(primary.statusCheckRollup.v) ELSE NoChecks

\* The i-th command run was the graphql query of the by-branch query.
BranchThreadsAsked(i) ==
    calls[i].cmd = GH_API_GRAPHQL /\ calls[i].cwd # Undefined

\* C12: in the by-branch and in the by-number query, when gh pr view answers
\* with a pull request and the query for the review threads fails or holds no
\* list of threads, the pull request is returned with state and check tally
\* (by branch: number and url as well) as gh pr view gave them and with no
\* unresolved threads; by branch without a repository, no query for the
\* threads is run and no unresolved threads are counted.
C12_ThreadsFailPrStays ==
    Handling =>
        \A i \in 1..Len(returned) :
            LET byBranch == returned[i].fn = "getPrForBranch"
                primary == IF byBranch THEN op.be.prView ELSE op.be.prViewN
                gql == IF byBranch THEN op.be.threads ELSE op.be.threadsN
                pr == returned[i].pr
            IN  /\ Found(primary) <=> pr # Undefined
                /\ Found(primary) =>
                    /\ pr.state = primary.state
                    /\ pr.checks = TallyOf(primary)
                    /\ byBranch => /\ pr.number = primary.number.v
                                   /\ pr.url = primary.url.v
                    /\ NoCount(gql) => pr.unresolvedThreads = 0
                    /\ (byBranch /\ cachedRepo = Undefined) =>
                          /\ pr.unresolvedThreads = 0
                          /\ \A k \in 1..Len(calls) : ~BranchThreadsAsked(k)

\* C12 witness: a tick has asked for the pull request of the branch and, with
\* the repository known, for its threads; that query failed, and the pull
\* request is returned with its failed check and no unresolved thread.
C12_Witness ==
    /\ PollTick
    /\ Len(returned) = 1
    /\ returned[1].fn = "getPrForBranch"
    /\ cachedRepo # Undefined
    /\ op.be.threads = Throw
    /\ \E k \in 1..Len(calls) : BranchThreadsAsked(k)
    /\ returned[1].pr # Undefined
    /\ returned[1].pr.number = 7
    /\ returned[1].pr.checks.fail = 1
    /\ returned[1].pr.unresolvedThreads = 0

-----------------------------------------------------------------------------
(* Claims about the handlers and the backends *)

SessionStarted == ~Idle /\ op.kind = "session_start"

\* The last event was one that polls: a tick, a session_switch, a session_start.
Polled == PollTick \/ SessionSwitched \/ SessionStarted

\* Nothing is shown, or the status of a pull request that a query of the
\* last handler returned.
AbsentOrQueried ==
    \/ statusBar = Undefined
    \/ \E i \in 1..Len(returned) :
          /\ returned[i].pr # Undefined
          /\ statusBar = Str(formatStatus(returned[i].pr))

\* C13 as stated: whatever the backends answer, after a tick, an input, a
\* before_agent_start or a session_switch the status is absent or that of a
\* pull request returned by a query of that event.
C13_AbsentOrQueried ==
    (PollTick \/ TextEvent \/ SessionSwitched) => AbsentOrQueried

\* C13 amended: whatever the backends answer, every handler ends; after an
\* event that polls, or a text event that queried, the status is absent or
\* that of a pull request returned by a query of that event; after a text
\* event that queried nothing the status is what it was.
C13_AbsentQueriedOrKept ==
    /\ (Polled \/ (TextEvent /\ returned # <<>>)) => AbsentOrQueried
    /\ (TextEvent /\ returned = <<>>) =>
          /\ calls = <<>>
          /\ statusBar = pre.statusBar
    /\ Handling => (lastPr = Undefined \/ lastPr.t = "PrInfo")

\* C13 witness: with a pull request shown, a tick has met a backend where git
\* and every gh command fail, and nothing is shown.
C13_Witness ==
    /\ PollTick
    /\ pre.statusBar # Undefined
    /\ op.be.branch = Throw
    /\ op.be.repoView = Throw
    /\ op.be.prView = Throw
    /\ op.be.prViewN = Throw
    /\ statusBar = Undefined
    /\ lastPr = Undefined

\* The last handler ran gh repo view.
LookedUp == \E i \in 1..Len(calls) : calls[i].cmd = GH_REPO_VIEW

\* C14: between two session switches the repository is looked up and
\* cachedRepo written at most once, whether the lookup succeeds or fails: a
\* handler other than session_switch that begins after a poll has got to a
\* branch, and so to the lookup (lastBranch names the branch), or with
\* cachedRepo set, does not look the repository up and leaves cachedRepo as
\* it was.
C14_LookedUpOnce ==
    (Handling /\ ~SessionSwitched
        /\ (IsBranch(pre.lastBranch) \/ pre.cachedRepo # Undefined)) =>
        /\ ~LookedUp
        /\ cachedRepo = pre.cachedRepo

\* C14 fails where the lookup has failed: cachedRepo stays undefined, and
\* every later poll that gets to a branch runs gh repo view again.

\* The i-th command run was a gh command: a call of the GitHub API.
ApiCall(i) == calls[i].cmd # GIT_REV_PARSE

ApiCalls == Cardinality({i \in 1..Len(calls) : ApiCall(i)})

\* C15: an earlier poll has found no pull request for the branch (no pin,
\* lastBranch names the branch, lastPr is undefined); a tick on the same
\* branch runs no gh command: no query for a pull request, no lookup of the
\* repository, no query for threads.
C15_NoPrNoCalls ==
    (PollTick /\ pre.pinnedPr = Null /\ IsBranch(pre.lastBranch)
        /\ pre.lastPr = Undefined /\ BranchOf(op.be) = pre.lastBranch) =>
        ApiCalls = 0

\* C15 fails on every such tick: update runs gh pr view on each poll of a
\* branch, whatever the poll before found.

\* C16: whatever the state, with a pin or with cachedRepo undefined after a
\* failed lookup, a tick runs at most two gh commands: one query for a pull
\* request and one for its threads.
C16_TwoCallsATick == PollTick => ApiCalls <= 2

\* C16 fails with a pin (gh pr view by number, its threads, then gh repo view,
\* gh pr view of the branch and its threads) and on a tick whose lookup of the
\* repository succeeds (gh repo view, gh pr view, the threads).

-----------------------------------------------------------------------------
(* Claims about the timer *)

\* C17: whatever the sequence of session_start, session_switch and
\* session_shutdown, a session_start after a session_start included, at most
\* one interval is running, and after a session_shutdown (timer is undefined
\* until the next session_start) none is, so that no tick runs.
C17_OneTimerNoneAfterShutdown ==
    /\ intervals <= 1
    /\ timer = Undefined => intervals = 0

\* C17 fails after two session_start: the second setInterval overwrites timer,
\* and session_shutdown clears the second interval only.

-----------------------------------------------------------------------------
(* Claims about the texts that are ignored *)

FromExtension == ~Idle /\ op.kind = "input" /\ op.source = "extension"

\* C18: an input event that comes from the extension changes nothing: pin,
\* lastBranch, lastPr, cachedRepo, the context of the timer and the status are
\* as before and no command is run, even if its text holds a pull-request URL
\* and no pull request is selected.
C18_ExtensionInputIgnored ==
    FromExtension =>
        /\ pinnedPr = pre.pinnedPr
        /\ lastBranch = pre.lastBranch
        /\ lastPr = pre.lastPr
        /\ cachedRepo = pre.cachedRepo
        /\ latestCtx = pre.latestCtx
        /\ statusBar = pre.statusBar
        /\ calls = <<>>
        /\ returned = <<>>

\* C18 witness: with no pull request selected and none pinned, an input of
\* the extension has held the URL of a/b#1, and nothing is pinned.
C18_Witness ==
    /\ FromExtension
    /\ Names([repo |-> <<"a", "/", "b">>, number |-> 1], op.text)
    /\ pre.lastPr = Undefined
    /\ pre.pinnedPr = Null
    /\ pinnedPr = Null
    /\ statusBar = Undefined

\* C19: a text of the user whose URL names the pinned pull request leaves
\* pin, lastPr and the status as they were and queries no pull request; a
\* text of the user without a pull-request URL leaves pin, lastBranch, lastPr,
\* cachedRepo and the status as they were.
C19_SamePinOrNoUrlIgnored ==
    /\ (UserText /\ Names(pre.pinnedPr, op.text)) =>
          /\ pinnedPr = pre.pinnedPr
          /\ lastPr = pre.lastPr
          /\ statusBar = pre.statusBar
          /\ returned = <<>>
          /\ calls = <<>>
    /\ (UserText /\ ~HasUrl(op.text)) =>
          /\ pinnedPr = pre.pinnedPr
          /\ lastBranch = pre.lastBranch
          /\ lastPr = pre.lastPr
          /\ cachedRepo = pre.cachedRepo
          /\ statusBar = pre.statusBar
          /\ calls = <<>>

\* C19 witness: o/r#42 is pinned and was not found; the user has typed its
\* URL again while gh would find it, and still nothing is shown.
C19_Witness ==
    /\ UserText
    /\ Names(pre.pinnedPr, op.text)
    /\ pre.pinnedPr.number = 42
    /\ pre.lastPr = Undefined
    /\ op.be.prViewN # Throw
    /\ pinnedPr = pre.pinnedPr
    /\ lastPr = Undefined
    /\ statusBar = Undefined

-----------------------------------------------------------------------------
(* Claims about the poll of a branch *)

\* C20: on a tick without a pin on a branch, the status after the tick is
\* that of the pull request the by-branch query of the tick returned, and
\* absent when it returned none: a status of an earlier tick does not stay
\* when the query fails or finds no pull request.
C20_ShowsWhatTheTickFound ==
    (PollTick /\ pre.pinnedPr = Null /\ IsBranch(BranchOf(op.be))) =>
        /\ Len(returned) = 1
        /\ returned[1].fn = "getPrForBranch"
        /\ lastPr = returned[1].pr
        /\ Shows(statusBar, returned[1].pr)
        /\ op.be.prView = Throw => statusBar = Undefined

\* C20 witness: the pull request of the branch was shown; a tick on the same
\* branch has found none, and nothing is shown.
C20_Witness ==
    /\ PollTick
    /\ pre.pinnedPr = Null
    /\ pre.statusBar # Undefined
    /\ IsBranch(pre.lastBranch)
    /\ BranchOf(op.be) = pre.lastBranch
    /\ op.be.prView = Throw
    /\ returned[1].pr = Undefined
    /\ statusBar = Undefined

\* lastPr holds nothing, or what a query of the last handler returned.
NothingFromBefore ==
    \/ lastPr = Undefined
    \/ \E i \in 1..Len(returned) : lastPr = returned[i].pr

\* C21 as stated: on a tick, with a pin or without, where the branch git
\* names differs from lastBranch (no branch and HEAD included), lastBranch
\* becomes that branch and lastPr holds nothing from before the tick.
C21_BranchNotedOnEveryTick ==
    (PollTick /\ BranchOf(op.be) # pre.lastBranch) =>
        /\ lastBranch = BranchOf(op.be)
        /\ NothingFromBefore

\* C21 amended: on a tick without a pin, lastBranch becomes the branch git
\* names (no branch and HEAD included); on a tick with a pin, lastBranch
\* becomes that branch only if the pinned pull request was found and git
\* names a branch, and is left as it was otherwise; after every tick lastPr
\* holds nothing from before the tick.
C21_BranchNotedWithoutPin ==
    PollTick =>
        /\ pre.pinnedPr = Null => lastBranch = BranchOf(op.be)
        /\ pre.pinnedPr # Null =>
              lastBranch = IF returned[1].pr # Undefined
                                /\ IsBranch(BranchOf(op.be))
                           THEN BranchOf(op.be) ELSE pre.lastBranch
        /\ NothingFromBefore

\* C21 witness: the pull request of main was shown, no pin; a tick has found
\* the branch feat, which has no pull request: lastBranch is feat and lastPr
\* is undefined.
C21_Witness ==
    /\ PollTick
    /\ pre.pinnedPr = Null
    /\ pre.lastBranch = Str(<<"m", "a", "i", "n">>)
    /\ pre.lastPr # Undefined
    /\ op.be.prView = Throw
    /\ lastBranch = Str(<<"f", "e", "a", "t">>)
    /\ lastPr = Undefined

-----------------------------------------------------------------------------
(* Claims about a pin that is left behind *)

\* No pin is set and the open pull request #7 of the branch is shown.
BranchPrShown ==
    /\ pinnedPr = Null
    /\ IsOpen(lastPr)
    /\ lastPr.number = 7
    /\ Shows(statusBar, lastPr)

\* C22: if from some point on the branch has an OPEN pull request of its
\* own, every query about the branch succeeds and the ticks keep firing,
\* then eventually the pin is empty and the pull request of the branch is
\* shown, whatever is pinned and whether the pinned pull request can be
\* found or not.
C22_BranchPrReclaims == <>BranchPrShown

\* C22 fails where the pinned pull request is never found: each tick shows
\* nothing and returns before it looks at the branch, and the pin stays.

-----------------------------------------------------------------------------
(* Claims about answers with fields left out *)

\* The answer of gh pr view to the query fn of the last handler lacks field f.
Lacks(fn, f) ==
    IF fn = "getPrForBranch" THEN op.be.prView[f] = Undefined
    ELSE IF f \in {"number", "url"} THEN f \in op.be.prViewN.omit
    ELSE op.be.prViewN[f] = Undefined

\* The title and the state the answer of gh pr view to the query fn holds.
Given(fn, f) == IF fn = "getPrForBranch" THEN op.be.prView[f] ELSE op.be.prViewN[f]

-----------------------------------------------------------------------------
(* Claims about the status and the pull request it is the line of *)

\* C25: when a handler has returned, the status slot holds
\* formatStatus(lastPr) where lastPr is a pull request and nothing where
\* lastPr is undefined; the same holds before the first handler.
C25_StatusIsLineOfLastPr == Shows(statusBar, lastPr)

\* A session_switch that began with a pull request shown and found none.
C25_Witness ==
    /\ SessionSwitched
    /\ pre.lastPr # Undefined
    /\ pre.statusBar # Undefined
    /\ lastPr = Undefined
    /\ statusBar = Undefined

\* The url of the pull request the pin names.
PinnedUrl == GITHUB_COM \o pinnedPr.repo \o PULL \o ToDecimal(pinnedPr.number)

\* C26: while a pin is set, lastPr is undefined or the pull request of the
\* pinned number in the pinned repository, and the status is not the line
\* of a pull request the by-branch query returned.
C26_PinnedShowsOnlyPinned ==
    pinnedPr # Null =>
        /\ \/ lastPr = Undefined
           \/ /\ lastPr.number = pinnedPr.number
              /\ lastPr.url = PinnedUrl
        /\ \A i \in 1..Len(returned) :
            (returned[i].fn = "getPrForBranch" /\ returned[i].pr # Undefined) =>
                statusBar # Str(formatStatus(returned[i].pr))

\* A tick that found the pinned pull request and a pull request of the
\* branch that is not OPEN: the pin stays and the pinned one is shown.
C26_Witness ==
    /\ PollTick
    /\ pinnedPr # Null
    /\ lastPr # Undefined
    /\ lastPr.number = pinnedPr.number
    /\ \E i \in 1..Len(returned) :
        /\ returned[i].fn = "getPrForBranch"
        /\ returned[i].pr # Undefined
        /\ returned[i].pr.number = 7

-----------------------------------------------------------------------------
(* Claims about the check segment of a rollup *)

\* The check segment the rollup calls for, by the reference table.
PassedSegment(rollup) ==
    <<CHECK_MARK, " ">> \o ToDecimal(Cardinality(Counted(rollup))) \o CHECKS_PASSED

FailedSegment(rollup) ==
    <<CROSS_MARK, " ">> \o ToDecimal(Cardinality(InBucket(rollup, "fail")))
        \o <<"/">> \o ToDecimal(Cardinality(Counted(rollup))) \o CHECKS_FAILED

PendingSegment(rollup) ==
    <<HOURGLASS, " ">> \o ToDecimal(Cardinality(InBucket(rollup, "pending")))
        \o <<"/">> \o ToDecimal(Cardinality(Counted(rollup))) \o CHECKS_PENDING

\* C27: in the status of a pull request a query made from a raw rollup, a
\* passed segment reads "N checks passed" with N the number of records that
\* are not ghosts, and is there only if each of them is classified pass; a
\* failed or pending segment reads "k/N" with k the number of records
\* classified fail or pending and N that same number of records that are not
\* ghosts; a rollup with such records gets one of the three.
C27_SegmentCountsTheRollup ==
    statusText # Undefined =>
        LET rollup == statusCheckRollup
            segs == Split(statusText.v, SEPARATOR)
            shown == {i \in 1..Len(segs) : IsCheckSegment(segs[i])}
        IN  /\ \A i \in shown :
                /\ segs[i][1] = CHECK_MARK =>
                    /\ segs[i] = PassedSegment(rollup)
                    /\ InBucket(rollup, "pass") = Counted(rollup)
                    /\ InBucket(rollup, "fail") = {}
                    /\ InBucket(rollup, "pending") = {}
                /\ segs[i][1] = CROSS_MARK => segs[i] = FailedSegment(rollup)
                /\ segs[i][1] = HOURGLASS => segs[i] = PendingSegment(rollup)
            /\ Counted(rollup) # {} => shown # {}

\* A rollup of a ghost and a completed check without a conclusion: one check
\* passed.
C27_Witness ==
    /\ statusText # Undefined
    /\ Len(statusCheckRollup) = 2
    /\ IsGhost(statusCheckRollup[1])
    /\ statusCheckRollup[2].conclusion = Null
    /\ statusCheckRollup[2].status = Str(COMPLETED)
    /\ Split(statusText.v, SEPARATOR)[2] = <<CHECK_MARK, " ", "1">> \o CHECKS_PASSED

=============================================================================
